---- MODULE Spec2Model ----
(***************************************************************************)
(* License / feature-entitlement subsystem of HyperBot                      *)
(* (src/cogs/license_manager.py), self-hosted mode.                         *)
(*                                                                         *)
(* Three coroutines share the LicenseManager fields and the license_cache  *)
(* row: the startup task _initial_validation ("init"), the                 *)
(* tasks.loop validate_license_task ("loop") and the slash command         *)
(* force_validation ("cmd").  A step of the model is the code between two  *)
(* suspension points (await) of one coroutine.  Time is counted in units   *)
(* of the loop interval (one hour).                                        *)
(***************************************************************************)
EXTENDS Integers, Sequences, FiniteSets, TLC

\* ---------------------------------------------------------------- bounds
MaxTime == 2
CacheDuration == 1
MaxCount == 1
MaxRows == 2
MaxTicketsLimit == 1

\* -------------------------------------------------------------- constants
LoopInterval == 1
window_duration == 300
max_requests == 5

Procs == {"init", "loop", "cmd"}

VARIABLES
    now,               \* datetime.utcnow(), in hours since process start
    configured,        \* license_key and license_server_url are both set
    license_valid,
    license_features,
    license_expires,   \* <<>> (None) or <<t>>
    last_validation,   \* <<>> (None) or <<t>>
    license_tier,
    cache,             \* rows of license_cache for license_key: {} or {row}
    pc,                \* per coroutine: the await it is suspended at
    success,           \* per coroutine: result of _validate_license_online
    data,              \* per coroutine: cache_data being saved, <<>> or <<d>>
    count,             \* per coroutine: result of _get_validation_count
    cached,            \* per coroutine: result of _load_cached_license
    notice,            \* per coroutine: issue_type of the running notification
    inserts,           \* coroutines whose INSERT is pending, in the order
                       \* the connection's worker thread will run them
    tick_due,          \* time the loop's next iteration is scheduled for
    loop_started,      \* the loop's first iteration has begun
    task_error,        \* "Error in license validation task" was printed
    license_key,       \* LicenseManager.license_key, the secret of the signature
    payload,           \* the dict handed to _create_signature: <<key, value>>
                       \* pairs in insertion order
    signature,         \* <<>> or <<the hex digest _create_signature returned>>
    hosted,            \* config.is_hosted_model()
    subscriptions,     \* guild_subscriptions: per guild <<>> or <<row>>
    tickets,           \* rows of table tickets in insertion order (id = index)
    call,              \* per caller: position and locals of its ticket flow
    selection,         \* per user: how the last category selection ended
    rate_limiter       \* HyperTicky.rate_limiter

licenseVars ==
    <<now, configured, license_valid, license_features, license_expires,
      last_validation, license_tier, cache, pc, success, data, count,
      cached, notice, inserts, tick_due, loop_started, task_error>>

signVars == <<license_key, payload, signature>>

ticketVars == <<hosted, subscriptions, tickets, call, selection, rate_limiter>>

otherVars == <<signVars, ticketVars>>

vars == <<licenseVars, signVars, ticketVars>>

entitlement == <<license_valid, license_features, license_expires,
                 last_validation, license_tier>>

\* ------------------------------------------------------------ ISO strings
\* datetime.isoformat() and datetime.fromisoformat(): a well-formed string
\* carries its time, any other string makes fromisoformat raise ValueError.
Iso(t) == <<"iso", t>>
Malformed == <<"bad">>
NoneStr == <<>>
IsIso(s) == Len(s) = 2 /\ s[1] = "iso"
FromIso(s) == s[2]

\* ------------------------------------------------------------ feature maps
\* JSON values of a features map: a boolean flag or an integer limit
JBool(b) == [type |-> "bool", bool |-> b, int |-> 0]
JInt(n) == [type |-> "int", bool |-> FALSE, int |-> n]

NoFeatures == [k \in {} |-> JBool(FALSE)]
ProFeatures ==
    ("api_access" :> JBool(TRUE)) @@ ("max_tickets" :> JInt(1000))
    @@ ("max_staff_positions" :> JInt(15))
BasicFeatures ==
    ("api_access" :> JBool(FALSE)) @@ ("max_tickets" :> JInt(200))
    @@ ("max_staff_positions" :> JInt(5))

\* ------------------------------------------------- license server responses
\* the body of Scenario C
FreshBody == [valid |-> TRUE, tier |-> "pro", features |-> ProFeatures, expires_at |-> NoneStr]

\* JSON bodies of POST /api/validate
Bodies ==
    { [valid |-> TRUE,  tier |-> "pro",   features |-> ProFeatures,   expires_at |-> NoneStr],
      [valid |-> TRUE,  tier |-> "basic", features |-> BasicFeatures, expires_at |-> Iso(MaxTime)],
      [valid |-> TRUE,  tier |-> "pro",   features |-> ProFeatures,   expires_at |-> Malformed],
      [valid |-> FALSE, tier |-> "none",  features |-> NoFeatures,    expires_at |-> NoneStr] }

\* what `async with session.post(...)` ends in
Responses ==
    [kind : {"http"}, status : {200}, body : Bodies]
    \cup [kind : {"http"}, status : {201, 500}, body : {FreshBody}]
    \cup [kind : {"timeout", "fault"}, status : {0}, body : {FreshBody}]

\* ------------------------------------------------------------ cache rows
\* json.dumps(cache_data) in column features, plus column validation_count
\* Field json is what the column holds: the text of a JSON object, text that
\* is not JSON ("invalid"), the JSON text null, the text of a JSON list, or
\* SQL NULL ("sqlnull"); the other fields are the keys of the object.
CacheData(body, t, n) ==
    [json |-> "object",
     valid |-> body.valid, tier |-> body.tier, features |-> body.features,
     expires_at |-> body.expires_at, cached_at |-> Iso(t), validation_count |-> n]

Row(d) == [features |-> d, validation_count |-> d.validation_count]

\* rows a previous run of the program may have left in the database file
InitialCaches ==
    { {},
      {Row(CacheData(FreshBody, 0, 1))},
      {Row(CacheData(FreshBody, 0 - CacheDuration, 2))} }

TheRow == CHOOSE r \in cache : TRUE

\* Records the features column may hold when the program starts and the
\* database file was written by something else than this run: well-formed
\* ones (fresh, valid=false, expired, stale) and damaged ones (text that is not
\* JSON, JSON null, a JSON list, SQL NULL, cached_at missing or unparseable,
\* expires_at unparseable).
StoredRecords ==
    LET fresh == CacheData(FreshBody, 0, 0)
    IN  { fresh,
          [fresh EXCEPT !.valid = FALSE],
          [fresh EXCEPT !.expires_at = Iso(0)],
          [fresh EXCEPT !.cached_at = Iso(0 - CacheDuration)],
          [fresh EXCEPT !.json = "invalid"],
          [fresh EXCEPT !.json = "null"],
          [fresh EXCEPT !.json = "list"],
          [fresh EXCEPT !.json = "sqlnull"],
          [fresh EXCEPT !.cached_at = NoneStr],
          [fresh EXCEPT !.cached_at = Malformed],
          [fresh EXCEPT !.expires_at = Malformed] }

StoredCaches == { {Row(d)} : d \in StoredRecords }

\* json.loads(result[0][0]) in _load_cached_license: None (<<>>) for text
\* that is not JSON and for the JSON text null, the value otherwise
JsonLoads(d) == IF d.json \in {"invalid", "null"} THEN <<>> ELSE <<d>>

\* json.loads(None) raises TypeError, which `except json.JSONDecodeError`
\* does not catch
JsonLoadsRaises(d) == d.json = "sqlnull"

\* ------------------------------------------------------- _is_cache_valid
\* IsCacheValid with the end of the cache duration included
IsCacheValidInclusive(d, t) ==
    IF d.json # "object" THEN FALSE
    ELSE IF ~IsIso(d.cached_at) THEN FALSE
    ELSE LET cache_age == t - FromIso(d.cached_at)
             cache_valid == cache_age <= CacheDuration
         IN  IF d.expires_at # NoneStr
             THEN IF ~IsIso(d.expires_at) THEN FALSE
                  ELSE cache_valid /\ t < FromIso(d.expires_at) /\ d.valid
             ELSE cache_valid /\ d.valid

IsCacheValid(d, t) ==
    IF d.json # "object" THEN FALSE
    ELSE IF ~IsIso(d.cached_at) THEN FALSE
    ELSE LET cache_age == t - FromIso(d.cached_at)
             cache_valid == cache_age < CacheDuration
         IN  IF d.expires_at # NoneStr
             THEN IF ~IsIso(d.expires_at) THEN FALSE
                  ELSE cache_valid /\ t < FromIso(d.expires_at) /\ d.valid
             ELSE cache_valid /\ d.valid

\* `cached_license and self._is_cache_valid(cached_license)`
CacheUsable(c, t) == c # <<>> /\ IsCacheValid(c[1], t)

\* ----------------------------------------------------- _apply_license_data
\* fromisoformat raises on a malformed expires_at, after license_valid and
\* license_features were assigned
ApplyRaises(d) == d.expires_at # NoneStr /\ ~IsIso(d.expires_at)

ApplyLicenseData(d) ==
    /\ license_valid' = d.valid
    /\ license_features' = d.features
    /\ IF ApplyRaises(d)
       THEN UNCHANGED <<license_expires, last_validation, license_tier>>
       ELSE /\ license_expires' =
                 IF d.expires_at # NoneStr THEN <<FromIso(d.expires_at)>> ELSE <<>>
            /\ last_validation' = <<now>>
            /\ license_tier' = d.tier

\* ------------------------------------------ return of _validate_license_online
\* The caller's code from the return of _validate_license_online (value r)
\* to its next await; lv is license_valid as the caller reads it.
Return(p, r, lv) ==
    /\ success' = [success EXCEPT ![p] = IF p = "cmd" THEN <<r>> ELSE <<>>]
    /\ data' = [data EXCEPT ![p] = <<>>]
    /\ count' = [count EXCEPT ![p] = 0]
    /\ CASE p = "loop" ->
              /\ pc' = [pc EXCEPT ![p] = IF ~r /\ lv THEN "load" ELSE "sleep"]
              /\ UNCHANGED notice
         [] p = "init" ->
              /\ pc' = [pc EXCEPT ![p] = IF ~lv THEN "notify" ELSE "done"]
              /\ notice' = [notice EXCEPT ![p] = IF ~lv THEN "invalid" ELSE "none"]
         [] p = "cmd" ->
              /\ pc' = [pc EXCEPT ![p] = "respond"]
              /\ UNCHANGED notice

\* CallValidate without the look at license_key and license_server_url
CallValidateUnchecked(p) ==
    /\ pc' = [pc EXCEPT ![p] = "http"]
    /\ success' = [success EXCEPT ![p] = <<>>]
    /\ UNCHANGED <<entitlement, cache, data, count, notice>>

\* entry of _validate_license_online up to the POST
CallValidate(p) ==
    IF ~configured
    THEN /\ Return(p, FALSE, license_valid)
         /\ UNCHANGED <<entitlement, cache>>
    ELSE /\ pc' = [pc EXCEPT ![p] = "http"]
         /\ success' = [success EXCEPT ![p] = <<>>]
         /\ UNCHANGED <<entitlement, cache, data, count, notice>>

\* Respond with the body's valid flag not looked at
RespondCachesAny(p, r) ==
    /\ pc[p] = "http"
    /\ IF r.kind = "http" /\ r.status = 200
       THEN /\ ApplyLicenseData(r.body)
            /\ IF ApplyRaises(r.body)
               THEN Return(p, FALSE, r.body.valid)
               ELSE /\ pc' = [pc EXCEPT ![p] = "count"]
                    /\ data' = [data EXCEPT ![p] = <<CacheData(r.body, now, 0)>>]
                    /\ UNCHANGED <<success, count, notice>>
       ELSE /\ Return(p, FALSE, license_valid)
            /\ UNCHANGED entitlement
    /\ UNCHANGED <<now, configured, cache, cached, inserts, tick_due, loop_started, task_error>>
    /\ UNCHANGED otherVars

\* Respond where an answer 200 with valid=false revokes the entitlement
RespondRevokes(p, r) ==
    /\ pc[p] = "http"
    /\ IF r.kind = "http" /\ r.status = 200 /\ r.body.valid
       THEN /\ ApplyLicenseData(r.body)
            /\ IF ApplyRaises(r.body)
               THEN Return(p, FALSE, r.body.valid)
               ELSE /\ pc' = [pc EXCEPT ![p] = "count"]
                    /\ data' = [data EXCEPT ![p] = <<CacheData(r.body, now, 0)>>]
                    /\ UNCHANGED <<success, count, notice>>
       ELSE IF r.kind = "http" /\ r.status = 200
       THEN /\ license_valid' = FALSE
            /\ Return(p, FALSE, FALSE)
            /\ UNCHANGED <<license_features, license_expires, last_validation, license_tier>>
       ELSE /\ Return(p, FALSE, license_valid)
            /\ UNCHANGED entitlement
    /\ UNCHANGED <<now, configured, cache, cached, inserts, tick_due, loop_started, task_error>>
    /\ UNCHANGED otherVars

\* the POST ends with response r
Respond(p, r) ==
    /\ pc[p] = "http"
    /\ IF r.kind = "http" /\ r.status = 200 /\ r.body.valid
       THEN /\ ApplyLicenseData(r.body)
            /\ IF ApplyRaises(r.body)
               THEN Return(p, FALSE, r.body.valid)
               ELSE /\ pc' = [pc EXCEPT ![p] = "count"]
                    /\ data' = [data EXCEPT ![p] = <<CacheData(r.body, now, 0)>>]
                    /\ UNCHANGED <<success, count, notice>>
       ELSE /\ Return(p, FALSE, license_valid)
            /\ UNCHANGED entitlement
    /\ UNCHANGED <<now, configured, cache, cached, inserts, tick_due, loop_started, task_error>>
    /\ UNCHANGED otherVars

\* _get_validation_count: the SELECT runs
CountExec(p) ==
    /\ pc[p] = "count"
    /\ count' = [count EXCEPT ![p] = IF cache = {} THEN 0 ELSE TheRow.validation_count]
    /\ pc' = [pc EXCEPT ![p] = "insert"]
    /\ inserts' = Append(inserts, p)
    /\ UNCHANGED <<now, configured, entitlement, cache, success, data, cached,
                   notice, tick_due, loop_started, task_error>>
    /\ UNCHANGED otherVars

\* NewRow with the count started afresh
NewRowRestarts(p) ==
    Row([data[p][1] EXCEPT !.validation_count = 1])

\* the row _cache_license_data writes
NewRow(p) ==
    Row([data[p][1] EXCEPT !.validation_count = count[p] + 1])

\* _cache_license_data: the INSERT OR REPLACE runs, the validation returns True
InsertExec(p) ==
    /\ pc[p] = "insert"
    /\ inserts # <<>> /\ Head(inserts) = p
    /\ inserts' = Tail(inserts)
    /\ cache' = {NewRow(p)}
    /\ Return(p, TRUE, license_valid)
    /\ UNCHANGED <<now, configured, entitlement, cached, tick_due, loop_started, task_error>>
    /\ UNCHANGED otherVars

\* An exception leaves _load_cached_license: the tick's `except Exception`
\* prints it and the tick ends; the startup task ends with it.
LoadRaised(p) ==
    /\ pc' = [pc EXCEPT ![p] = IF p = "loop" THEN "sleep" ELSE "done"]
    /\ task_error' = (task_error \/ p = "loop")

\* _load_cached_license: the SELECT runs
LoadExec(p) ==
    /\ pc[p] = "load"
    /\ IF cache # {} /\ JsonLoadsRaises(TheRow.features)
       THEN /\ LoadRaised(p)
            /\ UNCHANGED cached
       ELSE /\ cached' = [cached EXCEPT ![p] =
                            IF cache = {} THEN <<>> ELSE JsonLoads(TheRow.features)]
            /\ pc' = [pc EXCEPT ![p] = "loaded"]
            /\ UNCHANGED task_error
    /\ UNCHANGED <<now, configured, entitlement, cache, success, data, count,
                   notice, inserts, tick_due, loop_started>>
    /\ UNCHANGED otherVars

\* DbFault with no `except Exception` in _validate_license_online: the
\* exception of a cache write reaches the caller
DbFaultPropagates(p) ==
    /\ pc[p] \in {"count", "insert", "load"}
    /\ pc[p] = "insert" => (inserts # <<>> /\ Head(inserts) = p)
    /\ inserts' = IF pc[p] = "insert" THEN Tail(inserts) ELSE inserts
    /\ pc' = [pc EXCEPT ![p] = CASE p = "loop" -> "sleep"
                                  [] p = "init" -> "done"
                                  [] p = "cmd" -> "idle"]
    /\ task_error' = (task_error \/ p = "loop")
    /\ data' = [data EXCEPT ![p] = <<>>]
    /\ count' = [count EXCEPT ![p] = 0]
    /\ UNCHANGED <<success, notice>>
    /\ UNCHANGED <<now, configured, entitlement, cache, cached, tick_due, loop_started>>
    /\ UNCHANGED otherVars

\* DbFault with no `except Exception` in validate_license_task: the
\* exception of the cache load ends the loop
DbFaultStopsLoop(p) ==
    /\ pc[p] \in {"count", "insert", "load"}
    /\ pc[p] = "insert" => (inserts # <<>> /\ Head(inserts) = p)
    /\ inserts' = IF pc[p] = "insert" THEN Tail(inserts) ELSE inserts
    /\ IF pc[p] = "load"
       THEN /\ pc' = [pc EXCEPT ![p] = IF p = "loop" THEN "stopped" ELSE "done"]
            /\ UNCHANGED <<success, data, count, notice, task_error>>
       ELSE /\ Return(p, FALSE, license_valid)
            /\ UNCHANGED task_error
    /\ UNCHANGED <<now, configured, entitlement, cache, cached, tick_due, loop_started>>
    /\ UNCHANGED otherVars

\* execute_query raises (database error)
DbFault(p) ==
    /\ pc[p] \in {"count", "insert", "load"}
    /\ pc[p] = "insert" => (inserts # <<>> /\ Head(inserts) = p)
    /\ inserts' = IF pc[p] = "insert" THEN Tail(inserts) ELSE inserts
    /\ IF pc[p] = "load"
       THEN \* not caught in _load_cached_license
            /\ LoadRaised(p)
            /\ UNCHANGED <<success, data, count, notice>>
       ELSE \* caught by `except Exception` of _validate_license_online
            /\ Return(p, FALSE, license_valid)
            /\ UNCHANGED task_error
    /\ UNCHANGED <<now, configured, entitlement, cache, cached, tick_due, loop_started>>
    /\ UNCHANGED otherVars

\* ------------------------------------------------------ _initial_validation
InitWake ==
    /\ pc["init"] = "wait"
    /\ loop_started
    /\ pc' = [pc EXCEPT !["init"] = "load"]
    /\ UNCHANGED <<now, configured, entitlement, cache, success, data, count,
                   cached, notice, inserts, tick_due, loop_started, task_error>>
    /\ UNCHANGED otherVars

InitDecide ==
    /\ pc["init"] = "loaded"
    /\ cached' = [cached EXCEPT !["init"] = <<>>]
    /\ IF CacheUsable(cached["init"], now)
       THEN /\ ApplyLicenseData(cached["init"][1])
            /\ pc' = [pc EXCEPT !["init"] =
                        IF ~cached["init"][1].valid THEN "notify" ELSE "done"]
            /\ notice' = [notice EXCEPT !["init"] =
                        IF ~cached["init"][1].valid THEN "invalid" ELSE "none"]
            /\ UNCHANGED <<cache, success, data, count>>
       ELSE CallValidate("init")
    /\ UNCHANGED <<now, configured, inserts, tick_due, loop_started, task_error>>
    /\ UNCHANGED otherVars

\* --------------------------------------------------- validate_license_task
\* TickSkips with the window's end included
TickSkipsInclusive ==
    last_validation # <<>> /\ now - last_validation[1] <= CacheDuration

TickSkips ==
    last_validation # <<>> /\ now - last_validation[1] < CacheDuration

TickStart ==
    /\ pc["loop"] = "sleep"
    /\ now >= tick_due
    /\ tick_due' = tick_due + LoopInterval
    /\ loop_started' = TRUE
    /\ IF TickSkips
       THEN UNCHANGED <<entitlement, cache, pc, success, data, count, notice>>
       ELSE CallValidate("loop")
    /\ UNCHANGED <<now, configured, cached, inserts, task_error>>
    /\ UNCHANGED otherVars

\* TickFallback without the look at the cache
TickFallbackAlways ==
    /\ pc["loop"] = "loaded"
    /\ cached' = [cached EXCEPT !["loop"] = <<>>]
    /\ license_valid' = FALSE
    /\ pc' = [pc EXCEPT !["loop"] = "notify"]
    /\ notice' = [notice EXCEPT !["loop"] = "validation_failed"]
    /\ UNCHANGED <<now, configured, license_features, license_expires,
                   last_validation, license_tier, cache, success, data, count,
                   inserts, tick_due, loop_started, task_error>>
    /\ UNCHANGED otherVars

\* TickFallback that notifies and leaves license_valid alone
TickFallbackKeepsValid ==
    /\ pc["loop"] = "loaded"
    /\ cached' = [cached EXCEPT !["loop"] = <<>>]
    /\ IF CacheUsable(cached["loop"], now)
       THEN /\ pc' = [pc EXCEPT !["loop"] = "sleep"]
            /\ UNCHANGED notice
       ELSE /\ pc' = [pc EXCEPT !["loop"] = "notify"]
            /\ notice' = [notice EXCEPT !["loop"] = "validation_failed"]
    /\ UNCHANGED <<now, configured, entitlement, cache, success, data, count,
                   inserts, tick_due, loop_started, task_error>>
    /\ UNCHANGED otherVars

TickFallback ==
    /\ pc["loop"] = "loaded"
    /\ cached' = [cached EXCEPT !["loop"] = <<>>]
    /\ IF CacheUsable(cached["loop"], now)
       THEN /\ pc' = [pc EXCEPT !["loop"] = "sleep"]
            /\ UNCHANGED <<license_valid, notice>>
       ELSE /\ license_valid' = FALSE
            /\ pc' = [pc EXCEPT !["loop"] = "notify"]
            /\ notice' = [notice EXCEPT !["loop"] = "validation_failed"]
    /\ UNCHANGED <<now, configured, license_features, license_expires,
                   last_validation, license_tier, cache, success, data, count,
                   inserts, tick_due, loop_started, task_error>>
    /\ UNCHANGED otherVars

\* ---------------------------------------------------- _notify_license_issue
\* The notification is sent, or skipped, or raises (only discord.HTTPException
\* is caught inside): in the tick the exception is printed by `except Exception`.
NotifyDone(p) ==
    /\ pc[p] = "notify"
    /\ pc' = [pc EXCEPT ![p] = IF p = "loop" THEN "sleep" ELSE "done"]
    /\ notice' = [notice EXCEPT ![p] = "none"]
    /\ \E raised \in BOOLEAN : task_error' = (task_error \/ (raised /\ p = "loop"))
    /\ UNCHANGED <<now, configured, entitlement, cache, success, data, count,
                   cached, inserts, tick_due, loop_started>>
    /\ UNCHANGED otherVars

\* ----------------------------------------------------- check_feature_access
basic_features == {"tickets", "reports", "applications", "suggestions"}

\* feature names the callers ask for
FeatureNames ==
    basic_features
    \cup {"api_access", "priority_support", "max_tickets", "max_staff_positions"}

\* CheckFeatureAccess without the look at license_valid
CheckFeatureAccessUngated(feature) ==
    IF feature \in basic_features THEN JBool(TRUE)
    ELSE IF feature \in DOMAIN license_features THEN license_features[feature]
    ELSE JBool(FALSE)

\* CheckFeatureAccess with every feature looked up in the map
CheckFeatureAccessMapOnly(feature) ==
    IF ~license_valid THEN JBool(FALSE)
    ELSE IF feature \in DOMAIN license_features THEN license_features[feature]
    ELSE JBool(FALSE)

\* the value check_feature_access returns
CheckFeatureAccess(feature) ==
    IF ~license_valid THEN JBool(FALSE)
    ELSE IF feature \in basic_features THEN JBool(TRUE)
    ELSE IF feature \in DOMAIN license_features THEN license_features[feature]
    ELSE JBool(FALSE)

\* --------------------------------------------------------- force_validation
CmdInvoke ==
    /\ pc["cmd"] = "idle"
    /\ (IF cache = {} THEN 0 ELSE TheRow.validation_count) < MaxCount
    /\ CallValidate("cmd")
    /\ UNCHANGED <<now, configured, cached, inserts, tick_due, loop_started, task_error>>
    /\ UNCHANGED otherVars

CmdDone ==
    /\ pc["cmd"] = "respond"
    /\ pc' = [pc EXCEPT !["cmd"] = "idle"]
    /\ success' = [success EXCEPT !["cmd"] = <<>>]
    /\ UNCHANGED <<now, configured, entitlement, cache, data, count,
                   cached, notice, inserts, tick_due, loop_started, task_error>>
    /\ UNCHANGED otherVars

\* --------------------------------------------------------------- cog_unload
\* validate_license_task.cancel(): the tick is abandoned at its await.  An
\* INSERT it had not yet handed to the connection is never run; one already
\* handed over still runs in its turn (OrphanInsert).
CogUnload ==
    /\ pc["loop"] # "cancelled"
    /\ pc' = [pc EXCEPT !["loop"] = "cancelled"]
    /\ \/ /\ inserts' = SelectSeq(inserts, LAMBDA q : q # "loop")
          /\ data' = [data EXCEPT !["loop"] = <<>>]
          /\ count' = [count EXCEPT !["loop"] = 0]
       \/ /\ pc["loop"] = "insert"
          /\ UNCHANGED <<inserts, data, count>>
    /\ cached' = [cached EXCEPT !["loop"] = <<>>]
    /\ notice' = [notice EXCEPT !["loop"] = "none"]
    /\ UNCHANGED <<now, configured, entitlement, cache, success, tick_due, loop_started, task_error>>
    /\ UNCHANGED otherVars

OrphanInsert ==
    /\ pc["loop"] = "cancelled"
    /\ inserts # <<>> /\ Head(inserts) = "loop"
    /\ inserts' = Tail(inserts)
    /\ cache' = {NewRow("loop")}
    /\ data' = [data EXCEPT !["loop"] = <<>>]
    /\ count' = [count EXCEPT !["loop"] = 0]
    /\ UNCHANGED <<now, configured, entitlement, pc, success, cached, notice,
                   tick_due, loop_started, task_error>>
    /\ UNCHANGED otherVars

\* ------------------------------------------------------------------- clock
Advance ==
    /\ now < MaxTime
    /\ now' = now + 1
    /\ UNCHANGED <<configured, entitlement, cache, pc, success, data, count,
                   cached, notice, inserts, tick_due, loop_started, task_error>>
    /\ UNCHANGED otherVars

\* --------------------------------------------------------- _create_signature
\* The keys a payload can hold, in the order Python compares strings
KeyOrder == <<"bot_version", "guild_id", "license_key", "signature", "timestamp">>

PayloadKeys == {KeyOrder[i] : i \in 1..Len(KeyOrder)}

LicenseKeys == {"K1", "K2"}

Rank(k) == CHOOSE i \in 1..Len(KeyOrder) : KeyOrder[i] = k

\* the value _validate_license_online stores under each key (lines 67-75)
PayloadValue(k, key) ==
    CASE k = "license_key" -> key
      [] k = "guild_id" -> "42"
      [] k = "bot_version" -> "2.0.0"
      [] k = "timestamp" -> "1700000000"
      [] k = "signature" -> "stale"

\* dicts over the four keys of lines 67-72, with or without the signature
\* of line 75, in every insertion order
Orderings(S) ==
    {f \in [1..Cardinality(S) -> S] : \A i, j \in DOMAIN f : f[i] = f[j] => i = j}

Payloads(key) ==
    {[i \in DOMAIN f |-> <<f[i], PayloadValue(f[i], key)>>] :
        f \in Orderings(PayloadKeys \ {"signature"}) \cup Orderings(PayloadKeys)}

\* sorted(payload.items()): insertion of each item before the first item
\* with a greater key
RECURSIVE Sorted(_)
Sorted(items) ==
    IF items = <<>> THEN <<>>
    ELSE LET rest == Sorted(Tail(items))
             it == Head(items)
             before == SelectSeq(rest, LAMBDA x : Rank(x[1]) < Rank(it[1]))
             after == SelectSeq(rest, LAMBDA x : ~(Rank(x[1]) < Rank(it[1])))
         IN before \o <<it>> \o after

\* '&'.join(f"{k}={v}" ...): a string is the sequence of its pieces
RECURSIVE Join(_)
Join(items) ==
    IF items = <<>> THEN <<>>
    ELSE <<items[1][1], "=", items[1][2]>>
         \o (IF Len(items) > 1 THEN <<"&">> ELSE <<>>) \o Join(Tail(items))

\* hashlib.sha256(...).hexdigest(): distinct strings give distinct digests
Sha256(string) == <<"sha256", string>>

CreateSignatureUnsorted(pl) ==
    Sha256(Join(SelectSeq(pl, LAMBDA x : x[1] # "signature"))
           \o <<":", license_key>>)

CreateSignature(pl) ==
    Sha256(Join(SelectSeq(Sorted(pl), LAMBDA x : x[1] # "signature"))
           \o <<":", license_key>>)

\* line 75: payload['signature'] = self._create_signature(payload)
Sign ==
    /\ signature = <<>>
    /\ signature' = <<CreateSignature(payload)>>
    /\ UNCHANGED <<license_key, payload>>
    /\ UNCHANGED <<licenseVars, ticketVars>>

\* ---------------------------------------------------------- get_feature_limit
default_limits ==
    [f \in {"max_tickets", "max_staff_positions", "api_requests_per_hour"} |->
        CASE f = "max_tickets" -> 50
          [] f = "max_staff_positions" -> 3
          [] f = "api_requests_per_hour" -> 100]

GetFeatureLimitAbsentUnlimited(feature) ==
    IF ~license_valid
    THEN JInt(IF feature \in DOMAIN default_limits THEN default_limits[feature] ELSE 0)
    ELSE IF feature \in DOMAIN license_features THEN license_features[feature] ELSE JInt(0 - 1)

GetFeatureLimit(feature) ==
    IF ~license_valid
    THEN JInt(IF feature \in DOMAIN default_limits THEN default_limits[feature] ELSE 0)
    ELSE IF feature \in DOMAIN license_features THEN license_features[feature] ELSE JInt(0)

\* ------------------------------------------------------------------- tickets
\* Guild ids; the self-hosted bot serves the one guild of its configuration
Guilds == {1, 2}

Callers == {"a", "b"}

Users == {"u", "v"}

\* feature maps a validation can have left in license_features
TicketFeatureMaps ==
    {NoFeatures}
    \cup {[f \in {"max_tickets"} |-> JInt(n)] : n \in {0 - 1, 0, MaxTicketsLimit}}

\* Python truth of a JSON value
Truthy(v) == IF v.type = "bool" THEN v.bool ELSE v.int # 0

\* Database.create_guild_subscription: the feature map of each tier and the
\* columns the INSERT names; the other columns take their defaults
tier_features ==
    [t \in {"trial", "basic", "pro", "enterprise"} |->
        CASE t = "trial" ->
                [f \in {"max_tickets", "max_staff_positions", "api_access"} |->
                    CASE f = "max_tickets" -> JInt(50)
                      [] f = "max_staff_positions" -> JInt(3)
                      [] f = "api_access" -> JBool(FALSE)]
          [] t = "basic" ->
                [f \in {"max_tickets", "max_staff_positions", "api_access"} |->
                    CASE f = "max_tickets" -> JInt(200)
                      [] f = "max_staff_positions" -> JInt(5)
                      [] f = "api_access" -> JBool(FALSE)]
          [] t = "pro" ->
                [f \in {"max_tickets", "max_staff_positions", "api_access"} |->
                    CASE f = "max_tickets" -> JInt(1000)
                      [] f = "max_staff_positions" -> JInt(15)
                      [] f = "api_access" -> JBool(TRUE)]
          [] t = "enterprise" ->
                [f \in {"max_tickets", "max_staff_positions", "api_access"} |->
                    CASE f = "max_tickets" -> JInt(0 - 1)
                      [] f = "max_staff_positions" -> JInt(0 - 1)
                      [] f = "api_access" -> JBool(TRUE)]]

\* a row of guild_subscriptions, by column
SubscriptionRow(tier, stripe_subscription_id, status, features) ==
    [subscription_tier |-> tier,
     stripe_subscription_id |-> stripe_subscription_id,
     status |-> status,
     features |-> features]

NewSubscription(tier) ==
    SubscriptionRow(tier, "NULL", "active", tier_features[tier])

\* rows the table can hold when the bot starts: the trial row, a paid row
\* written by the billing side, a cancelled row, and a row whose Stripe
\* subscription id column holds the text 'active' and whose features name
\* the ticket feature with a limit
StoredSubscriptions ==
    {NewSubscription("trial"),
     SubscriptionRow("basic", "sub_1", "active", tier_features["basic"]),
     SubscriptionRow("basic", "sub_1", "cancelled", tier_features["basic"]),
     SubscriptionRow("basic", "active", "active",
        [f \in {"tickets", "max_tickets"} |->
            IF f = "tickets" THEN JBool(TRUE) ELSE JInt(MaxTicketsLimit)])}

\* Database.get_guild_subscription: <<>> is None
GetGuildSubscription(guild_id) ==
    IF ~hosted \/ subscriptions[guild_id] = <<>> THEN <<>>
    ELSE LET result == subscriptions[guild_id][1]
         IN <<[tier |-> result.subscription_tier,
               status |-> result.stripe_subscription_id,
               features |-> result.features]>>

\* HyperTicky.check_feature_access, hosted branch
HostedCheckFeatureAccess(guild_id, feature) ==
    LET subscription == GetGuildSubscription(guild_id)
    IN IF subscription = <<>> \/ subscription[1].status # "active" THEN FALSE
       ELSE IF feature \in DOMAIN subscription[1].features
            THEN Truthy(subscription[1].features[feature])
            ELSE FALSE

\* features.get('max_tickets', 0) of a subscription
SubscriptionLimit(subscription) ==
    IF "max_tickets" \in DOMAIN subscription.features
    THEN subscription.features["max_tickets"].int ELSE 0

\* HyperTicky._get_usage_stats / LicenseManager.get_usage_stats: tickets
\* created in the last month (every row of the model is that recent)
TotalTickets(guild_id) ==
    IF hosted
    THEN Cardinality({i \in DOMAIN tickets : tickets[i].guild_id = guild_id})
    ELSE Len(tickets)

\* the guard of the call sites: True denies
LimitDenies(max_tickets, total_tickets) ==
    max_tickets > 0 /\ total_tickets >= max_tickets

\* Database._get_next_ticket_number
RECURSIVE Max(_)
Max(S) ==
    IF S = {} THEN 0
    ELSE LET x == CHOOSE y \in S : TRUE
             m == Max(S \ {x})
         IN IF x > m THEN x ELSE m

GetNextTicketNumber(guild_id) ==
    IF hosted /\ guild_id # 0
    THEN Max({tickets[i].ticket_number :
                i \in {j \in DOMAIN tickets : tickets[j].guild_id = guild_id}}) + 1
    ELSE Max({tickets[i].ticket_number : i \in DOMAIN tickets}) + 1

IdleCall ==
    [pc |-> "idle", via |-> "none", guild |-> 0, usage |-> 0, max_tickets |-> 0,
     next_number |-> 0, ticket_id |-> 0, ticket_number |-> 0]

\* TicketCog.create_ticket up to its first database call.  Self-hosted, the
\* call db.create_ticket(discord_id=0, ...) passes no guild_id, the
\* required positional parameter of Database.create_ticket: TypeError,
\* which line 389 turns into {'success': False}.
CreateTicketEntryBound(rec) == [rec EXCEPT !.pc = "next"]

CreateTicketEntry(rec) ==
    IF hosted THEN [rec EXCEPT !.pc = "next"] ELSE [rec EXCEPT !.pc = "failed"]

\* TicketModal.on_submit is called
Submit(c, g) ==
    /\ call[c].pc = "idle"
    /\ Len(tickets) < MaxRows
    /\ hosted \/ g = 1
    /\ call' = [call EXCEPT ![c] = [IdleCall EXCEPT !.pc = "deferred", !.via = "modal", !.guild = g]]
    /\ UNCHANGED <<hosted, subscriptions, tickets, selection, rate_limiter>>
    /\ UNCHANGED <<licenseVars, signVars>>

\* on_submit after defer(): bot.check_feature_access(guild, 'tickets')
AccessCheck(c) ==
    /\ call[c].pc = "deferred"
    /\ LET granted == IF hosted THEN HostedCheckFeatureAccess(call[c].guild, "tickets")
                      ELSE Truthy(CheckFeatureAccess("tickets"))
       IN call' = [call EXCEPT ![c].pc = IF granted THEN "usage" ELSE "denied"]
    /\ UNCHANGED <<hosted, subscriptions, tickets, selection, rate_limiter>>
    /\ UNCHANGED <<licenseVars, signVars>>

\* the usage statistics are read; self-hosted, the limit check and the call
\* of create_ticket follow without suspension
UsageRead(c) ==
    /\ call[c].pc = "usage"
    /\ LET total == TotalTickets(call[c].guild)
           limit == GetFeatureLimit("max_tickets").int
       IN call' = [call EXCEPT ![c] =
            IF hosted THEN [@ EXCEPT !.usage = total, !.pc = "subscription"]
            ELSE IF LimitDenies(limit, total)
                 THEN [@ EXCEPT !.usage = total, !.max_tickets = limit, !.pc = "denied"]
                 ELSE CreateTicketEntry([@ EXCEPT !.usage = total, !.max_tickets = limit])]
    /\ UNCHANGED <<hosted, subscriptions, tickets, selection, rate_limiter>>
    /\ UNCHANGED <<licenseVars, signVars>>

\* hosted: the subscription is read, the limit checked, create_ticket called
SubscriptionRead(c) ==
    /\ call[c].pc = "subscription"
    /\ LET subscription == GetGuildSubscription(call[c].guild)
           limit == IF subscription = <<>> THEN 0 ELSE SubscriptionLimit(subscription[1])
       IN call' = [call EXCEPT ![c] =
            IF subscription # <<>> /\ LimitDenies(limit, call[c].usage)
            THEN [@ EXCEPT !.max_tickets = limit, !.pc = "denied"]
            ELSE CreateTicketEntry([@ EXCEPT !.max_tickets = limit])]
    /\ UNCHANGED <<hosted, subscriptions, tickets, selection, rate_limiter>>
    /\ UNCHANGED <<licenseVars, signVars>>

\* Database.create_ticket is called by another caller than the modal, for a
\* ticket of another type
DbCall(c, g) ==
    /\ call[c].pc = "idle"
    /\ Len(tickets) < MaxRows
    /\ hosted \/ g = 1
    /\ call' = [call EXCEPT ![c] = [IdleCall EXCEPT !.pc = "next", !.via = "db", !.guild = g]]
    /\ UNCHANGED <<hosted, subscriptions, tickets, selection, rate_limiter>>
    /\ UNCHANGED <<licenseVars, signVars>>

\* Database.create_ticket: await self._get_next_ticket_number(guild_id)
DbNext(c) ==
    /\ call[c].pc = "next"
    /\ call' = [call EXCEPT ![c].next_number = GetNextTicketNumber(call[c].guild),
                            ![c].pc = "insert"]
    /\ UNCHANGED <<hosted, subscriptions, tickets, selection, rate_limiter>>
    /\ UNCHANGED <<licenseVars, signVars>>

\* Database.create_ticket: the INSERT.  MariaDB refuses a second row with the
\* same (guild_id, ticket_number); the sqlite table has no such key and no
\* guild_id column.
DbInsert(c) ==
    /\ call[c].pc = "insert"
    /\ IF hosted /\ \E i \in DOMAIN tickets :
                        /\ tickets[i].guild_id = call[c].guild
                        /\ tickets[i].ticket_number = call[c].next_number
       THEN /\ call' = [call EXCEPT ![c].pc = "failed"]
            /\ UNCHANGED tickets
       ELSE /\ tickets' = Append(tickets,
                    [guild_id |-> IF hosted THEN call[c].guild ELSE 0,
                     ticket_number |-> call[c].next_number,
                     ticket_type |-> IF call[c].via = "modal" THEN "ticket" ELSE "report"])
            /\ call' = [call EXCEPT ![c].ticket_id = Len(tickets) + 1,
                                    ![c].pc = IF call[c].via = "modal" THEN "reread" ELSE "created"]
    /\ UNCHANGED <<hosted, subscriptions, selection, rate_limiter>>
    /\ UNCHANGED <<licenseVars, signVars>>

\* TicketCog.create_ticket: ticket_number = _get_next_ticket_number(...) - 1,
\* the number in the channel name and in the result
Reread(c) ==
    /\ call[c].pc = "reread"
    /\ call' = [call EXCEPT
            ![c].ticket_number =
                GetNextTicketNumber(IF hosted THEN call[c].guild ELSE 0) - 1,
            ![c].pc = "created"]
    /\ UNCHANGED <<hosted, subscriptions, tickets, selection, rate_limiter>>
    /\ UNCHANGED <<licenseVars, signVars>>

\* the result reached the user; the caller can start again
Finish(c) ==
    /\ call[c].pc \in {"denied", "failed", "created"}
    /\ call' = [call EXCEPT ![c] = IdleCall]
    /\ UNCHANGED <<hosted, subscriptions, tickets, selection, rate_limiter>>
    /\ UNCHANGED <<licenseVars, signVars>>

\* on_ready / on_guild_join: create_guild_subscription(guild.id, 'trial')
CreateGuildSubscription(g) ==
    /\ hosted
    /\ subscriptions[g] = <<>>
    /\ subscriptions' = [subscriptions EXCEPT ![g] = <<NewSubscription("trial")>>]
    /\ UNCHANGED <<hosted, tickets, call, selection, rate_limiter>>
    /\ UNCHANGED <<licenseVars, signVars>>

\* ----------------------------------------------------------------- RateLimiter
\* HyperTicky.__init__ line 542: the instance has no attribute 'RateLimiter',
\* so the attribute rate_limiter is None
NoRateLimiter == [present |-> FALSE, user_requests |-> [u \in Users |-> <<>>]]

Seconds == now * 3600

\* RateLimiter.is_rate_limited: the requests kept after the clean-up
Recent(u) ==
    SelectSeq(rate_limiter.user_requests[u], LAMBDA t : t > Seconds - window_duration)

\* CommercialPersistentCategorySelect.callback up to the modal: the
\* subscription or license gate, then lines 140-149.  hasattr(bot,
\* 'rate_limiter') is true, and None has no is_rate_limited: AttributeError,
\* answered by the handler of line 224 with "System Error".
Select(u, g) ==
    /\ hosted \/ g = 1
    /\ LET subscription == GetGuildSubscription(g)
           gate ==
             IF hosted
             THEN /\ subscription # <<>>
                  /\ subscription[1].status = "active"
                  /\ ~LimitDenies(SubscriptionLimit(subscription[1]), TotalTickets(g))
             ELSE Truthy(CheckFeatureAccess("tickets"))
       IN IF ~gate
          THEN /\ selection' = [selection EXCEPT ![u] = "denied"]
               /\ UNCHANGED rate_limiter
          ELSE IF ~rate_limiter.present
          THEN /\ selection' = [selection EXCEPT ![u] = "error"]
               /\ UNCHANGED rate_limiter
          ELSE IF Len(Recent(u)) >= max_requests
          THEN /\ selection' = [selection EXCEPT ![u] = "rate_limited"]
               /\ rate_limiter' = [rate_limiter EXCEPT !.user_requests[u] = Recent(u)]
          ELSE /\ selection' = [selection EXCEPT ![u] = "admitted"]
               /\ rate_limiter' = [rate_limiter EXCEPT
                                     !.user_requests[u] = Append(Recent(u), Seconds)]
    /\ UNCHANGED <<hosted, subscriptions, tickets, call>>
    /\ UNCHANGED <<licenseVars, signVars>>

\* the state of everything outside the license manager while only the
\* license manager runs
OtherIdle ==
    /\ license_key = "K1"
    /\ payload = <<>>
    /\ signature = <<>>
    /\ hosted = FALSE
    /\ subscriptions = [g \in Guilds |-> <<>>]
    /\ tickets = <<>>
    /\ call = [c \in Callers |-> IdleCall]
    /\ selection = [u \in Users |-> "none"]
    /\ rate_limiter = NoRateLimiter

\* ----------------------------------------------------------- specification
\* LicenseManager.__init__, self-hosted mode: the loop is started and the
\* startup task is created
Init ==
    /\ now = 0
    /\ configured \in BOOLEAN
    /\ license_valid = FALSE
    /\ license_features = NoFeatures
    /\ license_expires = <<>>
    /\ last_validation = <<>>
    /\ license_tier = "unset"
    /\ cache \in InitialCaches
    /\ pc = [p \in Procs |-> CASE p = "init" -> "wait" [] p = "loop" -> "sleep" [] p = "cmd" -> "idle"]
    /\ success = [p \in Procs |-> <<>>]
    /\ data = [p \in Procs |-> <<>>]
    /\ count = [p \in Procs |-> 0]
    /\ cached = [p \in Procs |-> <<>>]
    /\ notice = [p \in Procs |-> "none"]
    /\ inserts = <<>>
    /\ tick_due = 0
    /\ loop_started = FALSE
    /\ task_error = FALSE
    /\ OtherIdle

Next ==
    \/ InitWake
    \/ InitDecide
    \/ TickStart
    \/ TickFallback
    \/ CmdInvoke
    \/ CmdDone
    \/ Advance
    \/ \E p \in Procs : \E r \in Responses : Respond(p, r)
    \/ \E p \in Procs : CountExec(p)
    \/ \E p \in Procs : InsertExec(p)
    \/ \E p \in Procs : LoadExec(p)
    \/ \E p \in Procs : DbFault(p)
    \/ \E p \in Procs : NotifyDone(p)

Spec == Init /\ [][Next]_vars

\* the same with the cog unloaded at any moment
NextUnload == Next \/ CogUnload \/ OrphanInsert

SpecUnload == Init /\ [][NextUnload]_vars

\* The program started on a database file holding any stored record, with a
\* database that answers every statement.
InitStored ==
    /\ now = 0
    /\ configured \in BOOLEAN
    /\ license_valid = FALSE
    /\ license_features = NoFeatures
    /\ license_expires = <<>>
    /\ last_validation = <<>>
    /\ license_tier = "unset"
    /\ cache \in StoredCaches
    /\ pc = [p \in Procs |-> CASE p = "init" -> "wait" [] p = "loop" -> "sleep" [] p = "cmd" -> "idle"]
    /\ success = [p \in Procs |-> <<>>]
    /\ data = [p \in Procs |-> <<>>]
    /\ count = [p \in Procs |-> 0]
    /\ cached = [p \in Procs |-> <<>>]
    /\ notice = [p \in Procs |-> "none"]
    /\ inserts = <<>>
    /\ tick_due = 0
    /\ loop_started = FALSE
    /\ task_error = FALSE
    /\ OtherIdle

NextStored ==
    \/ InitWake
    \/ InitDecide
    \/ TickStart
    \/ TickFallback
    \/ CmdInvoke
    \/ CmdDone
    \/ Advance
    \/ \E p \in Procs : \E r \in Responses : Respond(p, r)
    \/ \E p \in Procs : CountExec(p)
    \/ \E p \in Procs : InsertExec(p)
    \/ \E p \in Procs : LoadExec(p)
    \/ \E p \in Procs : NotifyDone(p)

SpecStored == InitStored /\ [][NextStored]_vars

\* The event loop runs every coroutine that is ready; the POST ends (answer,
\* fault, or the ClientTimeout of line 77); a statement handed to the sqlite
\* connection completes or raises; the clock advances.
Fairness ==
    /\ WF_vars(Advance)
    /\ WF_vars(TickStart)
    /\ WF_vars(TickFallback)
    /\ WF_vars(\E r \in Responses : Respond("loop", r))
    /\ WF_vars(CountExec("loop"))
    /\ WF_vars(LoadExec("loop"))
    /\ WF_vars(NotifyDone("loop"))
    /\ \A p \in Procs : WF_vars(InsertExec(p))

SpecLive == Spec /\ Fairness

\* the license manager at rest
LicenseIdle ==
    /\ now = 0
    /\ configured = TRUE
    /\ license_expires = <<>>
    /\ last_validation = <<>>
    /\ license_tier = "unset"
    /\ cache = <<>>
    /\ pc = [p \in Procs |-> "done"]
    /\ success = [p \in Procs |-> <<>>]
    /\ data = [p \in Procs |-> <<>>]
    /\ count = [p \in Procs |-> 0]
    /\ cached = [p \in Procs |-> <<>>]
    /\ notice = [p \in Procs |-> "none"]
    /\ inserts = <<>>
    /\ tick_due = 0
    /\ loop_started = FALSE
    /\ task_error = FALSE

\* One signature is computed for any payload and any license key.
InitSign ==
    /\ LicenseIdle
    /\ license_valid = FALSE
    /\ license_features = NoFeatures
    /\ license_key \in LicenseKeys
    /\ payload \in Payloads(license_key)
    /\ signature = <<>>
    /\ hosted = FALSE
    /\ subscriptions = [g \in Guilds |-> <<>>]
    /\ tickets = <<>>
    /\ call = [c \in Callers |-> IdleCall]
    /\ selection = [u \in Users |-> "none"]
    /\ rate_limiter = NoRateLimiter

NextSign == Sign

SpecSign == InitSign /\ [][NextSign]_vars

\* Ticket creation in either business model, the license state or the
\* subscription rows being whatever earlier runs left.
InitTickets ==
    /\ LicenseIdle
    /\ license_valid \in BOOLEAN
    /\ license_features \in TicketFeatureMaps
    /\ ~license_valid => license_features = NoFeatures
    /\ hosted \in BOOLEAN
    /\ hosted => ~license_valid
    /\ license_key = "K1"
    /\ payload = <<>>
    /\ signature = <<>>
    /\ subscriptions \in [Guilds -> {<<>>} \cup {<<r>> : r \in StoredSubscriptions}]
    /\ ~hosted => subscriptions = [g \in Guilds |-> <<>>]
    /\ tickets = <<>>
    /\ call = [c \in Callers |-> IdleCall]
    /\ selection = [u \in Users |-> "none"]
    /\ rate_limiter = NoRateLimiter

NextTickets ==
    \/ \E c \in Callers : \E g \in Guilds : Submit(c, g)
    \/ \E c \in Callers : AccessCheck(c)
    \/ \E c \in Callers : UsageRead(c)
    \/ \E c \in Callers : SubscriptionRead(c)
    \/ \E c \in Callers : \E g \in Guilds : DbCall(c, g)
    \/ \E c \in Callers : DbNext(c)
    \/ \E c \in Callers : DbInsert(c)
    \/ \E c \in Callers : Reread(c)
    \/ \E c \in Callers : Finish(c)
    \/ \E g \in Guilds : CreateGuildSubscription(g)
    \/ \E u \in Users : \E g \in Guilds : Select(u, g)

SpecTickets == InitTickets /\ [][NextTickets]_vars

\* ================================================================== claims
StoredCount == IF cache = {} THEN 0 ELSE TheRow.validation_count

InFlight == {p \in Procs : pc[p] \in {"http", "count", "insert"}}

\* the tick ends its look at the cache it loaded
FallbackStep == pc["loop"] = "loaded" /\ pc'["loop"] # "loaded"

\* the record the tick loaded passes the freshness predicate
LoadedFresh == cached["loop"] # <<>> /\ IsCacheValid(cached["loop"][1], now)

\* C1: license_valid changes from true to false in no step but the tick's
\* fallback, and there only when the cached record the tick loaded does not
\* pass the freshness predicate: failed validations (periodic or forced)
\* that find a fresh cached record leave license_valid true.
C1_FallbackIdempotence ==
    [][(license_valid /\ ~license_valid') => (FallbackStep /\ ~LoadedFresh)]_vars

\* a tick's validation failed, the entitlement is valid by an earlier
\* validation, and the record the tick loaded is fresh
C1_Witness ==
    pc["loop"] = "loaded" /\ license_valid /\ last_validation # <<>> /\ LoadedFresh

\* C2: at most one online validation (startup, periodic tick, forced) is in
\* flight at any time.
C2_OneValidationInFlight == Cardinality(InFlight) <= 1

C4_StartupSkipsNetwork ==
    [][(~loop_started /\ loop_started' /\ cache # {} /\ IsCacheValid(TheRow.features, now))
         => pc'["loop"] # "http"]_vars

\* a previous validation lies within the cache-duration window
InWindow == last_validation # <<>> /\ now - last_validation[1] < CacheDuration

\* C5: a tick inside the window changes nothing (no call, entitlement and
\* cache record as before); a tick outside it, or with no validation yet,
\* invokes the online validation (the POST goes out when key and URL are set).
C5_TickWindow ==
    [][(tick_due' # tick_due) =>
         IF InWindow
         THEN pc' = pc /\ UNCHANGED <<entitlement, cache, success, data, count, cached, notice, inserts>>
         ELSE (configured => pc'["loop"] = "http")
           /\ (~configured => pc'["loop"] = (IF license_valid THEN "load" ELSE "sleep"))
      ]_vars

\* a tick is due inside the window of a validation that made the license valid
C5_Witness ==
    pc["loop"] = "sleep" /\ now >= tick_due /\ InWindow /\ license_valid /\ cache # {}

\* C6: a tick whose validation failed while the entitlement is valid (by a
\* validation applied earlier) and the loaded record is fresh keeps the
\* entitlement valid and raises the notification validation_failed.
C6_SoftDegradeNotifies ==
    [][(FallbackStep /\ LoadedFresh /\ license_valid /\ last_validation # <<>>)
         => (license_valid' /\ notice'["loop"] = "validation_failed")]_vars

\* C7: a failed live validation with no usable cache record, in the startup
\* task or in a tick, leaves the entitlement invalid and raises the
\* notification invalid.
C7_InvalidNotice ==
    [][ /\ (FallbackStep /\ ~LoadedFresh)
            => (~license_valid' /\ notice'["loop"] = "invalid")
        /\ (pc["init"] = "http" /\ pc'["init"] \notin {"http", "count"})
            => (~license_valid' /\ notice'["init"] = "invalid")
      ]_vars

\* C8: every write of the cache record raises validation_count by one.
C8_CountIncrements ==
    [][cache' # cache => StoredCount' = StoredCount + 1]_vars

\* C9: the stored validation_count never decreases, whatever validations
\* succeed, fail or overlap.
C9_CountMonotone ==
    [][StoredCount' >= StoredCount]_vars

\* two overlapping validations have both read the count of a record written
\* in this run, and their writes are pending
C9_Witness ==
    Len(inserts) = 2 /\ StoredCount >= 1 /\ count[inserts[1]] < StoredCount

\* C10: the cache record changes only by the write of a validation that
\* received a 200 response with valid=true; failed validations and a tick
\* abandoned in flight leave it as it was.
C10_CacheWriteOnlyAfterSuccess ==
    [][cache' # cache =>
         \E p \in Procs : /\ inserts # <<>> /\ Head(inserts) = p
                          /\ data[p] # <<>> /\ data[p][1].valid
                          /\ cache' = {NewRow(p)}]_vars

\* the tick was abandoned and the record is one written in this run
C10_Witness ==
    pc["loop"] = "cancelled" /\ cache # {} /\ TheRow.features.cached_at = Iso(1)

\* ---------------------------------------------------------------- C11..C20
InFlightPcs == {"http", "count", "insert"}

\* all five entitlement fields are, after the step, those of response body b
FullyApplied(b) ==
    /\ b.expires_at = NoneStr \/ IsIso(b.expires_at)
    /\ license_valid' = b.valid
    /\ license_features' = b.features
    /\ license_expires' = (IF b.expires_at # NoneStr THEN <<FromIso(b.expires_at)>> ELSE <<>>)
    /\ last_validation' = <<now>>
    /\ license_tier' = b.tier

\* the entitlement fields are those of the response that record d was made of
AppliedFrom(d) ==
    /\ license_valid = d.valid
    /\ license_features = d.features
    /\ last_validation = <<FromIso(d.cached_at)>>
    /\ license_tier = d.tier

\* C11: an update of the entitlement is all-or-nothing.  The step that handles
\* the server's response either goes on as a success with all five fields
\* taken from that response, or returns failure with all five unchanged; a
\* validation that fails at its cache write does not leave the fields of its
\* response behind; the startup's cache load takes all five from the record.
C11_AllOrNothing ==
    [][ /\ \A p \in Procs :
             (pc[p] = "http" /\ pc'[p] # "http") =>
                 \/ pc'[p] # "count" /\ UNCHANGED entitlement
                 \/ pc'[p] = "count" /\ \E b \in Bodies : FullyApplied(b)
        /\ \A p \in Procs :
             (pc[p] = "count" /\ pc'[p] \notin InFlightPcs) => ~AppliedFrom(data[p][1])
        /\ (pc["init"] = "loaded" /\ pc'["init"] \in {"done", "notify"}) =>
             FullyApplied(cached["init"][1])
      ]_vars

Is2xx(r) == r.kind = "http" /\ r.status \in 200..299

\* C12: the step that handles the server's response goes on as a success
\* exactly when the status is a 2xx status and the body has valid=true; every
\* other response is returned as failure at once.
C12_SuccessIff2xxValid ==
    [][\A p \in Procs : \A r \in Responses :
          Respond(p, r) => ((Is2xx(r) /\ r.body.valid) <=> pc'[p] = "count")]_vars

\* coroutine p calls _validate_license_online in this step
CallStep(p) ==
    CASE p = "loop" -> tick_due' # tick_due /\ ~InWindow
      [] p = "init" -> pc[p] = "loaded" /\ pc'[p] # "loaded" /\ ~CacheUsable(cached[p], now)
      [] p = "cmd"  -> pc[p] = "idle" /\ pc'[p] # "idle"

\* the caller of p's validation goes on, in this step, with the result False
FailureReturned(p) ==
    CASE p = "loop" -> pc'[p] = (IF license_valid' THEN "load" ELSE "sleep")
      [] p = "init" -> pc'[p] = (IF license_valid' THEN "done" ELSE "notify")
      [] p = "cmd"  -> pc'[p] = "respond" /\ success'[p] = <<FALSE>>

\* C13: without a license key or a server URL no coroutine is ever at the
\* POST or at a cache write, the cache record never changes, and a call of the
\* online validation returns failure in the same step with the entitlement
\* unchanged.
C13_Unconfigured ==
    [][~configured =>
         /\ cache' = cache
         /\ \A p \in Procs :
              /\ pc'[p] \notin InFlightPcs
              /\ CallStep(p) => (UNCHANGED entitlement /\ FailureReturned(p))]_vars

\* without key or URL, a tick's validation call has returned failure and the
\* entitlement seeded from the cache is still in place
C13_Witness ==
    ~configured /\ pc["loop"] = "load" /\ license_valid /\ last_validation # <<>>

\* C14: a running online validation always ends by returning to its caller:
\* when it ends at the response or at the count query the caller goes on with
\* the result False, and when it ends at the INSERT the caller goes on with a
\* result (True, or False for a fault); the forced validation always reaches
\* its reply.
C14_NeverRaises ==
    [][\A p \in Procs :
          (pc[p] \in InFlightPcs /\ pc'[p] \notin InFlightPcs) =>
             /\ pc[p] \in {"http", "count"} => FailureReturned(p)
             /\ p = "cmd" => (pc'[p] = "respond" /\ success'[p] # <<>>)
             /\ p = "loop" => pc'[p] \in {"load", "sleep"} /\ task_error' = task_error
             /\ p = "init" => pc'[p] \in {"done", "notify"}]_vars

\* the forced validation returned False after a fault while applying the
\* response (malformed expires_at: valid and features assigned, tier not)
C14_Witness ==
    /\ pc["cmd"] = "respond" /\ success["cmd"] = <<FALSE>>
    /\ license_valid /\ license_features = ProFeatures /\ license_tier = "unset"

\* C15: the loop is never ended by what happens inside a tick: tick_due grows
\* by one with each tick, and every tick scheduled within the horizon takes
\* place, the last one included, whatever exceptions (from the validation,
\* the cache load or the notification) the ticks before it met.
C15_LoopSurvives == <>(tick_due = MaxTime + 1)

\* a tick is validating after an earlier tick was ended by an exception
C15_Witness ==
    task_error /\ pc["loop"] = "http" /\ tick_due > 1

WellFormedRecord(d) ==
    /\ d.json = "object"
    /\ IsIso(d.cached_at)
    /\ d.expires_at = NoneStr \/ IsIso(d.expires_at)

\* the three conditions of freshness, for a well-formed record d at time t
FreshAsSpecified(d, t) ==
    /\ t - FromIso(d.cached_at) < CacheDuration
    /\ d.expires_at = NoneStr \/ t < FromIso(d.expires_at)
    /\ d.valid

\* C16: for the stored record and for every record a coroutine has loaded,
\* at every time the program gets to, _is_cache_valid is true exactly when
\* the record is younger than the cache duration, is not past its expires_at
\* (if it has one) and has valid=true.
C16_FreshnessPredicate ==
    /\ (cache # {} /\ WellFormedRecord(TheRow.features)) =>
          (IsCacheValid(TheRow.features, now) <=> FreshAsSpecified(TheRow.features, now))
    /\ \A p \in Procs :
          (cached[p] # <<>> /\ WellFormedRecord(cached[p][1])) =>
             (IsCacheValid(cached[p][1], now) <=> FreshAsSpecified(cached[p][1], now))

\* the tick's fallback loaded a record with valid=true and no expires_at whose
\* age has reached the cache duration
C16_Witness ==
    /\ pc["loop"] = "loaded" /\ cached["loop"] # <<>>
    /\ WellFormedRecord(cached["loop"][1])
    /\ cached["loop"][1].valid /\ cached["loop"][1].expires_at = NoneStr
    /\ now - FromIso(cached["loop"][1].cached_at) >= CacheDuration

\* C17: when the stored record is damaged, the cache load of the startup task
\* and of the tick's fallback completes and yields nothing usable, and the
\* coroutine goes on as for a cache miss: the startup task calls the online
\* validation, the tick invalidates the license and notifies.
C17_MalformedIsMiss ==
    [][\A p \in {"init", "loop"} :
          /\ (pc[p] = "load" /\ pc'[p] # "load" /\ cache # {}
                 /\ ~WellFormedRecord(TheRow.features))
               => (pc'[p] = "loaded" /\ ~CacheUsable(cached'[p], now))
          /\ (pc[p] = "loaded" /\ pc'[p] # "loaded" /\ ~CacheUsable(cached[p], now))
               => IF p = "init"
                  THEN IF configured THEN pc'[p] = "http"
                       ELSE UNCHANGED entitlement /\ FailureReturned(p)
                  ELSE ~license_valid' /\ pc'[p] = "notify"]_vars

\* C18: while license_valid is false, check_feature_access returns False for
\* every feature, the basic ones included.
C18_InvalidDeniesAll ==
    ~license_valid => \A f \in FeatureNames : CheckFeatureAccess(f) = JBool(FALSE)

\* the license was valid and has been invalidated: the features map of the
\* last response (api_access true) is still in place
C18_Witness ==
    ~license_valid /\ license_features = ProFeatures /\ last_validation # <<>>

\* C19: while license_valid is true, check_feature_access returns True for
\* tickets, reports, applications and suggestions, whatever the features map
\* holds.
C19_BasicAlwaysGranted ==
    license_valid => \A f \in basic_features : CheckFeatureAccess(f) = JBool(TRUE)

\* a valid license whose features map has no entry for any basic feature and
\* api_access false
C19_Witness ==
    /\ license_valid /\ license_features = BasicFeatures
    /\ basic_features \cap DOMAIN license_features = {}

\* C20: while license_valid is true, check_feature_access of a feature
\* outside the basic set returns the stored value when that is a boolean,
\* and False when the key is absent or holds anything else.
C20_PremiumLookup ==
    license_valid =>
        \A f \in FeatureNames \ basic_features :
            CheckFeatureAccess(f) =
                IF f \in DOMAIN license_features /\ license_features[f].type = "bool"
                THEN license_features[f] ELSE JBool(FALSE)

\* ---------------------------------------------------------------- C21..C30
\* the limits the callers ask for, and one no table names
LimitNames ==
    {"max_tickets", "max_staff_positions", "api_requests_per_hour", "max_categories"}

\* C21: with an invalid entitlement get_feature_limit returns 50 for
\* max_tickets, 3 for max_staff_positions, 100 for api_requests_per_hour and
\* 0 for every other name; with a valid one it returns the stored integer,
\* 0 when the name is absent, and -1 only when -1 is what is stored.
C21_FeatureLimit ==
    \A f \in LimitNames :
        /\ ~license_valid =>
              GetFeatureLimit(f).int =
                  (CASE f = "max_tickets" -> 50
                     [] f = "max_staff_positions" -> 3
                     [] f = "api_requests_per_hour" -> 100
                     [] OTHER -> 0)
        /\ (license_valid /\ f \in DOMAIN license_features) =>
              GetFeatureLimit(f) = license_features[f]
        /\ (license_valid /\ f \notin DOMAIN license_features) =>
              GetFeatureLimit(f).int = 0
        /\ GetFeatureLimit(f).int = 0 - 1 =>
              /\ license_valid
              /\ f \in DOMAIN license_features
              /\ license_features[f].int = 0 - 1

\* a submission read the limit -1 from a valid license that stores -1
C21_Witness ==
    /\ license_valid
    /\ \E c \in Callers : call[c].via = "modal" /\ call[c].max_tickets = 0 - 1

\* C22: the signature is the same for every insertion order of the payload's
\* keys and with or without a signature key already present; the signed
\* string is the key=value pairs in lexicographic key order joined by &,
\* followed by : and the license key.
C22_SignatureCanonical ==
    signature # <<>> =>
        /\ \A q \in Payloads(license_key) : CreateSignature(q) = signature[1]
        /\ signature[1] =
              Sha256(<<"bot_version", "=", "2.0.0", "&",
                       "guild_id", "=", "42", "&",
                       "license_key", "=", license_key, "&",
                       "timestamp", "=", "1700000000",
                       ":", license_key>>)

\* a payload that starts with timestamp and holds a stale signature was signed
C22_Witness ==
    /\ signature # <<>>
    /\ payload[1][1] = "timestamp"
    /\ \E i \in DOMAIN payload : payload[i][1] = "signature"

\* a tick of validate_license_task begins
TickStep == pc["loop"] = "sleep" /\ tick_due' # tick_due

\* C23: once the entitlement is invalid every later tick attempts a live
\* validation (failed attempts leave last_validation alone), and the tick
\* whose validation succeeds makes the entitlement valid and rewrites the
\* cache record.
C23_InvalidTickRetries ==
    [][(TickStep /\ configured /\ ~license_valid) => pc'["loop"] = "http"]_vars

\* C24: license_valid goes from true to false only in the step of a periodic
\* tick that follows its failed validation and its load of a cache record
\* that is not fresh; no step of the startup path or of the forced
\* validation revokes, whatever the server answered.
C24_OnlyTickRevokes ==
    [][(license_valid /\ ~license_valid') =>
          /\ pc["loop"] = "loaded"
          /\ pc'["loop"] = "notify"
          /\ ~CacheUsable(cached["loop"], now)
          /\ pc'["init"] = pc["init"]
          /\ pc'["cmd"] = pc["cmd"]]_vars

\* the forced validation returned False while the entitlement is valid
C24_Witness ==
    pc["cmd"] = "respond" /\ success["cmd"] = <<FALSE>> /\ license_valid

\* a modal submission that passed the limit check of on_submit
Admitted(c) ==
    call[c].via = "modal" /\ call[c].pc \in {"next", "insert", "reread", "created", "failed"}

\* C25: at the self-hosted call sites a limit of 0 (stored or absent) denies
\* the creation, -1 is no cap, and a positive n denies once the usage of the
\* window has reached n.
C25_LimitSemantics ==
    \A c \in Callers :
        (~hosted /\ Admitted(c)) =>
            \/ call[c].max_tickets = 0 - 1
            \/ call[c].max_tickets > 0 /\ call[c].usage < call[c].max_tickets

\* tickets the modal submissions have created
Created == {i \in DOMAIN tickets : tickets[i].ticket_type = "ticket"}

C27_NumbersUnique ==
    \A i, j \in DOMAIN tickets :
        (tickets[i].guild_id = tickets[j].guild_id
            /\ tickets[i].ticket_number = tickets[j].ticket_number) => i = j

C29_RateLimit ==
    [][\A u \in Users :
          (selection'[u] # selection[u] /\ selection'[u] # "denied") =>
              /\ selection'[u] =
                    IF Len(Recent(u)) < max_requests THEN "admitted" ELSE "rate_limited"
              /\ \A v \in Users \ {u} :
                    rate_limiter'.user_requests[v] = rate_limiter.user_requests[v]
      ]_vars

\* C30: hosted, the access check of a modal submission grants the ticket
\* feature to a guild whose subscription row has status active (the trial
\* row of create_guild_subscription is one), and denies a guild with no row
\* or a row of another status.
C30_HostedAccess ==
    [][\A c \in Callers :
          (hosted /\ call[c].pc = "deferred" /\ call'[c].pc # "deferred") =>
              LET row == subscriptions[call[c].guild]
              IN call'[c].pc = IF row # <<>> /\ row[1].status = "active"
                               THEN "usage" ELSE "denied"
      ]_vars

====
